---- MODULE Spec2Model ----
(***************************************************************************)
(* The interactive review console of smart-commit: the approval loop of    *)
(* SmartCommit._handle_atomic_commits_approval (core.py) driving           *)
(* SmartCommitConsole.interactive_atomic_commits_approval (Browse) and     *)
(* SmartCommitConsole._inline_edit_commit_message (Edit), one step per     *)
(* character read by _get_char, from the raw-mode probe or the fallback     *)
(* menu to the commits run_atomic_commits creates afterwards (Spec).       *)
(* SpecGetChar follows one call of _get_char statement by statement with   *)
(* the attributes of the terminal; SpecFiles follows the list of files     *)
(* run_atomic_commits builds from a `git status --porcelain` listing.      *)
(*                                                                         *)
(* Strings are sequences of characters; a character is a TLA+ string that  *)
(* names one value returned by sys.stdin.read(1).  Indices are 0-based, as *)
(* in the code: entry i of a list is commits[i + 1].                       *)
(***************************************************************************)
EXTENDS Integers, Sequences, FiniteSets, TLC

\* ------------------------------------------------------------- bounds
\* the largest max_retries call_with_retry is called with
MaxRetries == 4
\* the largest max_size a ScopeCache is made with
MaxCacheSize == 2
\* the access count up to which cache hits are followed
MaxAccess == 2
\* Longest edit buffer the user types (longer input is not enumerated).
MaxLen == 3
\* Largest number of times Edit is entered in one workflow.
MaxEdits == 2
\* Largest number of calls of _get_char followed one after the other.
MaxReads == 2
\* Longest `git status --porcelain` listing.
MaxStatusLines == 2

\* ------------------------------------------------------------- characters
ESC == "ESC"
CR  == "CR"
LF  == "LF"
DEL == "DEL"
BS  == "BS"
TAB == "TAB"
ETX == "ETX"

\* Characters with ord(ch) >= 32 other than DEL.
Printable == {"[", "A", "B", "C", "c", "x"}
\* Control characters, ord(ch) < 32, and DEL.
Control == {ESC, CR, LF, DEL, BS, TAB, ETX}
Chars == Printable \cup Control
\* The printable characters enumerated as text typed into the edit buffer.
TypedChars == {"x", "c"}
EditKeys == Control \cup TypedChars
\* The characters enumerated as the one read right after ESC: '[' as sent by the
\* arrow keys, a letter as sent by Alt+letter, and CtrlC.
SecondChars == {"[", "x", ETX}

\* file paths of the proposals, in list order
FilePaths == <<"a.py", "b.py">>
\* Largest number of proposals handed to the console.
MaxN == Len(FilePaths)
\* the messages generated for them: never empty (core.py:335-340, 378-380)
InitMessages == <<<<"x">>, <<"c">>>>

\* The lines enumerated as answers to input() when a key read has degraded.
Lines == {<<>>, <<"c">>, <<"x">>, <<"x", "c">>}
\* The lines enumerated as answers to the prompt of the fallback menu.
MenuLines == {<<>>, <<"c">>, <<"C">>, <<"x">>, <<"0">>, <<"1">>, <<"2">>, <<"3">>,
              <<"0", "1">>, <<"1", "c">>}
\* the decimal digits, Digits[v + 1] being the digit of value v
Digits == <<"0", "1", "2", "3", "4", "5", "6", "7", "8", "9">>

\* Terminal attributes: the two local modes that tty.setcbreak clears.
TermAttrs == [echo : BOOLEAN, icanon : BOOLEAN]
\* the attributes of a terminal in its usual line mode
Cooked == [echo |-> TRUE, icanon |-> TRUE]

\* Optional[...]: None, or a value wrapped in a 1-tuple.
None == <<>>
Some(v) == <<v>>

Max(a, b) == IF a >= b THEN a ELSE b
Min(a, b) == IF a <= b THEN a ELSE b

\* chr.lower()
Lower(ch) == IF ch = "C" THEN "c" ELSE IF ch = "A" THEN "a" ELSE IF ch = "B" THEN "b" ELSE ch

\* ------------------------------------------------------------- state
VARIABLES
    pc,               \* where the workflow is blocked (see PcValues)
    input_commits,    \* the list the generator handed to the approval loop
    proposed_commits, \* core: the list, mutated in place by committed edits
    current_index,    \* core: remembered selection
    selected_index,   \* Browse: local of interactive_atomic_commits_approval, -1 outside
    shown_index,      \* Browse: the row highlighted in the table drawn last, -1 outside
    char,             \* the characters of the escape sequence read so far
    edit_index,       \* Edit: index being edited, -1 outside
    current_message,  \* Edit: message at entry
    editing_message,  \* Edit: edit buffer
    cursor_pos,       \* Edit: cursor position
    action,           \* the session outcome: "none", "approve" or "cancel"
    approval,         \* what _handle_atomic_commits_approval returned
    edits,            \* number of times Edit was entered
    \* History of the last edit round-trip, kept until the next key is read in Browse:
    pre_edit_index,   \* selected_index when Edit was entered
    pre_edit_commits, \* proposed_commits when Edit was entered
    last_exit,        \* how Edit was left: "enter", "escape", "ctrlc", "interrupt"
    last_seq,         \* the escape sequence that ended Edit, <<>> if none did
    last_browse,      \* what the last key read in Browse came to (see BrowseFates)
    \* History of the edit, kept until the console is called again:
    typed,            \* printable characters typed since Edit was entered
    backspaces,       \* Backspaces pressed after them
    simple,           \* the keys of this edit were characters, then at most as many Backspaces
    last_buffer,      \* the edit buffer when Edit was left
    \* History of the workflow:
    committed,        \* input_commits with every buffer committed by Enter applied
    probes,           \* times the raw-mode probe was evaluated
    \* The workflow around the review session (run_atomic_commits):
    stdin_kind,       \* what sys.stdin is for the whole workflow (see StdinKinds)
    exception,        \* the exception that escaped the approval loop, "none" if none
    commit_pos,       \* _create_atomic_commits: entries of the approved list gone through
    staged_files,     \* the file paths handed to stage_files, in order
    created_commits,  \* the commits created, in order
    \* One call of _get_char, statement by statement (specification SpecGetChar):
    gc_pc,            \* where the call is (see GetCharPcs)
    attrs,            \* the attributes of the terminal
    old_settings,     \* local of _get_char: the attributes saved by tcgetattr
    pending,          \* the exception raised in the inner try, "none" if none
    ch_read,          \* what the call returned, <<>> before it returns
    reads,            \* calls begun so far
    attrs_before,     \* history: the attributes when the call began
    \* The files of the atomic commits (specification SpecFiles):
    fl_pc,            \* "status", "state" (RepositoryState built) or "listed"
    status_lines,     \* the lines of `git status --porcelain`
    repo_staged,      \* RepositoryState.staged_files, as file paths
    repo_unstaged,    \* RepositoryState.unstaged_files, as file paths
    repo_untracked,   \* RepositoryState.untracked_files
    files_to_process, \* run_atomic_commits: the file paths, one proposal each
    \* One draw of the table (specification SpecRender):
    table,            \* the rows handed to the Table that was printed, None before
    \* One call of AIBackend.call_with_retry (specification SpecRetry):
    rt_pc,            \* "try": top of the for loop; "except": in the handler; "done"
    max_retries,      \* the argument
    attempt,          \* the loop variable (the next value of range(max_retries))
    last_exception,   \* local: None or the exception caught last
    calls,            \* history: calls of call_api made
    waits,            \* history: the arguments of asyncio.sleep, in order
    errors,           \* history: the exceptions call_api raised, in order
    rt_result,        \* None, <<"returned", attempt>> or <<"raised", exception>>
    \* A ScopeCache (specification SpecScopeCache):
    cache,            \* _cache: a function from the cached paths to their scopes
    access_count,     \* _access_count: its items, in the order of the dict
    max_size,         \* _max_size
    returned,         \* history: what the last get_scope returned, None before
    last_call,        \* history: the last call and, for get_scope, how it went
    has_evicted       \* history: an entry has been evicted

vars == <<pc, input_commits, proposed_commits, current_index, selected_index,
          shown_index, char,
          edit_index, current_message, editing_message, cursor_pos, action, approval,
          edits, pre_edit_index, pre_edit_commits, typed, backspaces, simple,
          last_exit, last_seq, last_browse, last_buffer, committed, probes,
          stdin_kind, exception,
          commit_pos, staged_files, created_commits, gc_pc, attrs, old_settings,
          pending, ch_read, reads, attrs_before, fl_pc, status_lines, repo_staged,
          repo_unstaged, repo_untracked, files_to_process, table,
          rt_pc, max_retries, attempt, last_exception, calls, waits, errors, rt_result,
          cache, access_count, max_size, returned, last_call, has_evicted>>

editVars == <<edit_index, current_message, editing_message, cursor_pos>>
tripVars == <<pre_edit_index, pre_edit_commits, typed, backspaces, simple,
              last_exit, last_seq, last_browse, last_buffer>>
\* what the review console never changes
gitVars == <<commit_pos, staged_files, created_commits>>
getCharVars == <<gc_pc, attrs, old_settings, pending, ch_read, reads, attrs_before>>
\* the variables of the other specifications
filesVars == <<fl_pc, status_lines, repo_staged, repo_unstaged, repo_untracked,
               files_to_process>>
renderVars == <<table>>
retryVars == <<rt_pc, max_retries, attempt, last_exception, calls, waits, errors,
               rt_result>>
cacheVars == <<cache, access_count, max_size, returned, last_call, has_evicted>>
restVars == <<renderVars, retryVars, cacheVars>>
otherVars == <<getCharVars, filesVars, restVars>>
\* what a key read by the console never changes
flowVars == <<input_commits, otherVars, stdin_kind, exception, gitVars, probes>>
histVars == <<tripVars, committed>>

BrowsePcs == {"browse", "browse_esc1", "browse_esc2", "browse_tab"}
EditPcs == {"edit", "edit_esc"}
\* What a key read in Browse came to, when it did not act: "ignored" at the end of
\* the chain of console.py:352-392, "tab_dropped" for the key read after Tab (386).
BrowseFates == {"none", "ignored", "tab_dropped"}
PcValues == {"approval", "fallback", "done", "creating", "end", "crashed"}
                \cup BrowsePcs \cup EditPcs

\* sys.stdin: a terminal; a pipe or file (tcgetattr raises termios.error); an
\* object without a file descriptor (fileno raises io.UnsupportedOperation, an
\* OSError); any of them on a platform without the termios module
StdinKinds == {"tty", "notty", "nofd", "nomodule"}

\* ------------------------------------------------------------- pure helpers
\* mutant of UpIndex: the lower clamp is forgotten
UpIndexUnclamped(sel) == sel - 1

\* console.py:358  new_index = max(0, selected_index - 1)
UpIndex(sel) == Max(0, sel - 1)

\* mutant of DownIndex: ArrowDown is not clamped at the last row
DownIndexUnclamped(sel, commit_count) == sel + 1

\* console.py:367  new_index = min(commit_count - 1, selected_index + 1)
DownIndex(sel, commit_count) == Min(commit_count - 1, sel + 1)

\* mutant of StartIndex: the console always starts at the first row
StartIndexZero(start_index) == 0

\* console.py:356-374: the selection after the escape sequence seq
MovedIndex(seq, sel, commit_count) ==
    IF seq = <<ESC, "[", "A">> THEN UpIndex(sel)
    ELSE IF seq = <<ESC, "[", "B">> THEN DownIndex(sel, commit_count)
    ELSE sel

\* console.py:359-364, 368-373: the table is drawn with the new selection only when the
\* selection has moved and the throttle lets the draw through
ShownAfterMove(shown, old_index, new_index, late) ==
    IF new_index # old_index /\ late THEN new_index ELSE shown

\* console.py:323  selected_index = start_index
StartIndex(start_index) == start_index

\* mutant of CanDelete: Backspace deletes at the start of the buffer too
CanDeleteAlways(cur) == TRUE

\* console.py:253  if cursor_pos > 0:
CanDelete(cur) == cur > 0

\* console.py:254  editing_message[:cursor_pos-1] + editing_message[cursor_pos:]
DeleteBefore(msg, cur) ==
    SubSeq(msg, 1, cur - 1) \o SubSeq(msg, cur + 1, Len(msg))

\* console.py:261  editing_message[:cursor_pos] + char + editing_message[cursor_pos:]
InsertAt(msg, cur, ch) ==
    SubSeq(msg, 1, cur) \o <<ch>> \o SubSeq(msg, cur + 1, Len(msg))

\* console.py:243  return editing_message if editing_message != current_message else None
ConfirmEdit(editing, current) ==
    IF editing # current THEN Some(editing) ELSE None

\* core.py:501  if new_message:   (None and the empty string are both falsy)
Truthy(new_message) == new_message # None /\ new_message[1] # <<>>

\* core.py:502  proposed_commits[index]["message"] = new_message
SetMessage(commits, index, msg) ==
    [commits EXCEPT ![index + 1].message = msg]

\* mutant of AbandonEdit: Escape hands the buffer back like Enter
AbandonEditKeepsBuffer(editing) == Some(editing)

\* console.py:248  return None   (Escape abandons the edit)
AbandonEdit(editing) == None

\* mutant of ApplyEdit: the returned value is stored without the None guard
ApplyEditUnguarded(commits, index, new_message) ==
    SetMessage(commits, index, new_message)

\* core.py:501-502
ApplyEdit(commits, index, new_message) ==
    IF Truthy(new_message) THEN SetMessage(commits, index, new_message[1]) ELSE commits

\* mutant of InitialCursor: the cursor starts at the beginning of the buffer
InitialCursorZero(msg) == 0

\* console.py:233  cursor_pos = len(current_message)
InitialCursor(msg) == Len(msg)

\* console.py:383  next_char == '\r' or next_char == '\n'
IsEnter(ch) == ch = CR \/ ch = LF

\* mutant of TabConfirmed: any character after Tab approves
TabConfirmedAlways(next_char) == TRUE

\* console.py:382-383  next_char = self._get_char(); if next_char == '\r' or ... '\n'
TabConfirmed(next_char) == next_char = CR \/ next_char = LF

\* mutant of IsCancelKey: 'x' cancels as well
IsCancelKeyAnyLetter(ch) == ch \in {"c", "C", "x"}

\* console.py:388  char.lower() == 'c'
IsCancelKey(ch) == Lower(ch) = "c"

\* console.py:260  len(char) == 1 and ord(char) >= 32   (DEL is 127)
IsPrintable(ch) == ch \in Printable \cup {DEL}

\* console.py:310  input(...)[0:1] or '\r'
FallbackChar(line) == IF line = <<>> THEN CR ELSE line[1]

\* console.py:314-321: the raw-mode probe.  "raw": nothing was raised; "fallback":
\* termios.error (notty) or io.UnsupportedOperation (nofd) was raised and caught at
\* 319; "UnboundLocalError": the import raised ImportError, and the except clause
\* at 319 evaluates termios.error with the local name termios never bound
Probe(kind) ==
    IF kind = "tty" THEN "raw"
    ELSE IF kind = "nomodule" THEN "UnboundLocalError"
    ELSE "fallback"

\* console.py:295-305  _get_char reads one character in cbreak mode
RawRead == stdin_kind = "tty"

\* console.py:306-310  _get_char reads a line: fileno (nofd) or the read in cbreak
\* mode (tty) raised an OSError
LineRead == stdin_kind \in {"tty", "nofd"}

\* console.py:299  tcgetattr raises termios.error, which 306 does not catch
ReadRaises == stdin_kind = "notty"

\* str.isdigit() of a line of the menu
IsDigit(line) == line # <<>> /\ \A i \in 1..Len(line) : \E v \in 0..9 : Digits[v + 1] = line[i]

\* int(choice)
RECURSIVE IntOf(_)
IntOf(line) ==
    IF line = <<>> THEN 0
    ELSE 10 * IntOf(SubSeq(line, 1, Len(line) - 1))
         + (CHOOSE v \in 0..9 : Digits[v + 1] = line[Len(line)])

\* str(i), for the entry numbers of the menu
StrOf(i) == <<Digits[i + 1]>>

\* choice.lower()
LowerLine(line) == [i \in 1..Len(line) |-> Lower(line[i])]

\* console.py:431-436  choices=[""] + [str(i) for i in range(1, len(commits) + 1)] + ["c", "C"]
PromptChoices(n) == {<<>>, <<"c">>, <<"C">>} \cup {StrOf(i) : i \in 1..n}

\* mutant of MenuChoice: entry k is taken as the 0-based index
MenuChoiceOffByOne(line, n) ==
    IF line \notin PromptChoices(n) THEN <<"ask">>
    ELSE IF line = <<>> THEN <<"approve", -1>>
    ELSE IF LowerLine(line) = <<"c">> THEN <<"cancel", -1>>
    ELSE <<"edit", IntOf(line)>>

\* console.py:430-445: what one answer to the prompt of the fallback menu does.
\* Prompt.ask hands back only an answer that is one of the choices and asks again
\* for any other.
MenuChoice(line, n) ==
    IF line \notin PromptChoices(n) THEN <<"ask">>
    ELSE IF line = <<>> THEN <<"approve", -1>>
    ELSE IF LowerLine(line) = <<"c">> THEN <<"cancel", -1>>
    ELSE IF IsDigit(line) /\ 1 <= IntOf(line) /\ IntOf(line) <= n
         THEN <<"edit", IntOf(line) - 1>>
    ELSE <<"ask">>

\* mutant of CancelResult: Cancel hands the list on like ApproveAll
CancelReturnsList(commits) == Some(commits)

\* core.py:491-492  elif action == "cancel": return None
CancelResult(commits) == None

\* core.py:239  if not approval   (None and the empty list are both falsy)
Approved(result) == result # None /\ result[1] # <<>>

\* ------------------------------------------------------------- initial state
\* The terminal is as the shell left it and no key is being read.
GetCharIdle ==
    /\ gc_pc = "idle"
    /\ old_settings = None
    /\ pending = "none"
    /\ ch_read = <<>>
    /\ reads = 0
    /\ attrs_before = None

\* No repository state has been collected.
FilesIdle ==
    /\ fl_pc = "status"
    /\ repo_staged = <<>>
    /\ repo_unstaged = <<>>
    /\ repo_untracked = <<>>
    /\ files_to_process = <<>>

\* Nothing has been drawn.
RenderIdle ==
    table = None

\* call_with_retry has not been called.
RetryIdle ==
    /\ rt_pc = "try"
    /\ max_retries = 0
    /\ attempt = 0
    /\ last_exception = None
    /\ calls = 0
    /\ waits = <<>>
    /\ errors = <<>>
    /\ rt_result = None

\* scope_cache.py:18-23: a cache just made, with the smallest size
CacheIdle ==
    /\ cache = <<>>
    /\ access_count = <<>>
    /\ max_size = 0
    /\ returned = None
    /\ last_call = "none"
    /\ has_evicted = FALSE

RestIdle ==
    /\ RenderIdle
    /\ RetryIdle
    /\ CacheIdle

\* The review session, given the list input_commits, has not begun.
SessionIdle ==
    /\ proposed_commits = input_commits
    /\ committed = input_commits
    /\ pc = "approval"
    /\ current_index = 0
    /\ selected_index = -1
    /\ shown_index = -1
    /\ char = <<>>
    /\ edit_index = -1
    /\ current_message = <<>>
    /\ editing_message = <<>>
    /\ cursor_pos = 0
    /\ action = "none"
    /\ approval = None
    /\ edits = 0
    /\ pre_edit_index = -1
    /\ pre_edit_commits = <<>>
    /\ typed = <<>>
    /\ backspaces = 0
    /\ simple = FALSE
    /\ last_exit = "none"
    /\ last_seq = <<>>
    /\ last_browse = "none"
    /\ last_buffer = <<>>
    /\ probes = 0
    /\ exception = "none"
    /\ commit_pos = 0
    /\ staged_files = <<>>
    /\ created_commits = <<>>

Init ==
    /\ \E n \in 1..MaxN :
         input_commits =
           [i \in 1..n |-> [file_path |-> FilePaths[i], message |-> InitMessages[i]]]
    /\ SessionIdle
    /\ stdin_kind \in StdinKinds
    /\ GetCharIdle
    /\ attrs = Cooked
    /\ FilesIdle
    /\ RestIdle
    /\ status_lines = <<>>

\* ------------------------------------------------------------- history
ResetHistory(fate) ==
    /\ pre_edit_index' = -1
    /\ pre_edit_commits' = <<>>
    /\ typed' = <<>>
    /\ backspaces' = 0
    /\ simple' = FALSE
    /\ last_exit' = "none"
    /\ last_seq' = <<>>
    /\ last_browse' = fate
    /\ last_buffer' = <<>>

ResetTrip == ResetHistory("none")

\* The keys of this edit no longer are characters followed by Backspaces.
NotSimple ==
    /\ simple' = FALSE
    /\ typed' = <<>>
    /\ backspaces' = 0

\* ------------------------------------------------------------- outcomes
\* console.py:389,392,395  return "cancel", -1 ; core.py:491-492  return None
Cancel ==
    /\ action' = "cancel"
    /\ approval' = CancelResult(proposed_commits)
    /\ pc' = "done"
    /\ selected_index' = -1
    /\ shown_index' = -1
    /\ char' = <<>>
    /\ ResetTrip
    /\ UNCHANGED <<flowVars, proposed_commits, current_index, editVars, edits, committed>>

\* console.py:384  return "approve", -1 ; core.py:489-490  return proposed_commits
Approve ==
    /\ action' = "approve"
    /\ approval' = Some(proposed_commits)
    /\ pc' = "done"
    /\ selected_index' = -1
    /\ shown_index' = -1
    /\ char' = <<>>
    /\ ResetTrip
    /\ UNCHANGED <<flowVars, proposed_commits, current_index, editVars, edits, committed>>

\* An exception leaves the console and, uncaught in the approval loop
\* (core.py:486-505) and in run_atomic_commits (core.py:238), the workflow.
Raise(exc) ==
    /\ exception' = exc
    /\ pc' = "crashed"
    /\ selected_index' = -1
    /\ shown_index' = -1
    /\ char' = <<>>
    /\ edit_index' = -1
    /\ current_message' = <<>>
    /\ editing_message' = <<>>
    /\ cursor_pos' = 0
    /\ ResetTrip
    /\ UNCHANGED <<input_commits, otherVars, stdin_kind, gitVars, proposed_commits,
                   current_index, action, approval, edits, committed>>

\* console.py:378  return "edit", selected_index ; core.py:493-500 ;
\* console.py:231-240: the edit buffer is the stored message, cursor at its end
EnterEdit(index) ==
    IF 0 <= index /\ index < Len(proposed_commits)
    THEN /\ current_index' = index
         /\ edit_index' = index
         /\ current_message' = proposed_commits[index + 1].message
         /\ editing_message' = proposed_commits[index + 1].message
         /\ cursor_pos' = InitialCursor(proposed_commits[index + 1].message)
         /\ pc' = "edit"
         /\ selected_index' = -1
         /\ shown_index' = -1
         /\ char' = <<>>
         /\ edits' = edits + 1
         /\ pre_edit_index' = selected_index
         /\ pre_edit_commits' = proposed_commits
         /\ typed' = <<>>
         /\ backspaces' = 0
         /\ simple' = TRUE
         /\ last_exit' = "none"
         /\ last_seq' = <<>>
         /\ last_browse' = "none"
         /\ last_buffer' = <<>>
         /\ UNCHANGED <<flowVars, proposed_commits, action, approval, committed>>
    ELSE /\ pc' = "approval"
         /\ selected_index' = -1
         /\ shown_index' = -1
         /\ char' = <<>>
         /\ ResetTrip
         /\ UNCHANGED <<flowVars, proposed_commits, current_index, editVars,
                        action, approval, edits, committed>>

\* _inline_edit_commit_message returns new_message ; core.py:501-505: the
\* approval loop stores it and calls the console again
ReturnFromEdit(new_message, how) ==
    /\ proposed_commits' = ApplyEdit(proposed_commits, edit_index, new_message)
    /\ pc' = "approval"
    /\ edit_index' = -1
    /\ current_message' = <<>>
    /\ editing_message' = <<>>
    /\ cursor_pos' = 0
    /\ char' = <<>>
    /\ last_exit' = how
    /\ last_buffer' = editing_message
    /\ UNCHANGED <<flowVars, current_index, selected_index, shown_index, action, approval,
                   edits, pre_edit_index, pre_edit_commits, typed, backspaces, simple,
                   last_browse>>

\* ------------------------------------------------------------- after the session
\* core.py:239-241  if not approval: return ; core.py:250-252  if dry_run: return
ReturnWithoutCommits ==
    /\ pc = "done"
    /\ pc' = "end"
    /\ UNCHANGED <<flowVars, proposed_commits, current_index, selected_index, shown_index, char,
                   editVars, action, approval, edits, histVars>>

\* core.py:514-549: one iteration of the loop of _create_atomic_commits over the
\* approved list.  outcome "created": staged and committed; "blocked": staged, then
\* skipped for a secret (528-531) or the commit raised (544); "failed": stage_files
\* raised (544).
CreateCommit(outcome) ==
    /\ pc \in {"done", "creating"}
    /\ Approved(approval)
    /\ commit_pos < Len(approval[1])
    /\ pc' = "creating"
    /\ commit_pos' = commit_pos + 1
    /\ staged_files' =
         IF outcome = "failed" THEN staged_files
         ELSE Append(staged_files, approval[1][commit_pos + 1].file_path)
    /\ created_commits' =
         IF outcome = "created"
         THEN Append(created_commits,
                     [file_path |-> approval[1][commit_pos + 1].file_path,
                      message |-> approval[1][commit_pos + 1].message])
         ELSE created_commits
    /\ UNCHANGED <<input_commits, otherVars, stdin_kind, exception, probes, proposed_commits,
                   current_index, selected_index, shown_index, char, editVars, action,
                   approval, edits, histVars>>

\* core.py:551, 255-262: the loop is over
CommitsDone ==
    /\ pc = "creating"
    /\ commit_pos = Len(approval[1])
    /\ pc' = "end"
    /\ UNCHANGED <<flowVars, proposed_commits, current_index, selected_index, shown_index, char,
                   editVars, action, approval, edits, histVars>>

\* ------------------------------------------------------------- Browse
\* console.py:312-346 (the raw-mode probe succeeding): selection set, table drawn
Start ==
    /\ pc = "approval"
    /\ Probe(stdin_kind) = "raw"
    /\ probes' = probes + 1
    /\ selected_index' = StartIndex(current_index)
    /\ shown_index' = StartIndex(current_index)
    /\ pc' = "browse"
    /\ typed' = <<>>
    /\ backspaces' = 0
    /\ simple' = FALSE
    /\ last_buffer' = <<>>
    /\ UNCHANGED <<input_commits, otherVars, stdin_kind, exception, gitVars,
                   proposed_commits, current_index, char, editVars, action, approval,
                   edits, pre_edit_index, pre_edit_commits, last_exit, last_browse,
                   last_seq, committed>>

\* console.py:319-321, 414-428: the probe raised, the exception was caught and the
\* fallback menu is shown
StartFallback ==
    /\ pc = "approval"
    /\ Probe(stdin_kind) = "fallback"
    /\ probes' = probes + 1
    /\ pc' = "fallback"
    /\ typed' = <<>>
    /\ backspaces' = 0
    /\ simple' = FALSE
    /\ last_buffer' = <<>>
    /\ UNCHANGED <<input_commits, otherVars, stdin_kind, exception, gitVars,
                   proposed_commits, current_index, selected_index, shown_index, char,
                   editVars, action, approval, edits, pre_edit_index, pre_edit_commits,
                   last_exit, last_browse, last_seq, committed>>

\* console.py:319: evaluating the except clause raises, and that exception escapes
ProbeRaises ==
    /\ pc = "approval"
    /\ Probe(stdin_kind) \notin {"raw", "fallback"}
    /\ probes' = probes + 1
    /\ Raise(Probe(stdin_kind))

\* console.py:430-445: one answer to the prompt of the fallback menu
SimplifiedApproval(line) ==
    /\ pc = "fallback"
    /\ LET choice == MenuChoice(line, Len(proposed_commits)) IN
       IF choice[1] = "approve" THEN Approve
       ELSE IF choice[1] = "cancel" THEN Cancel
       ELSE IF choice[1] = "edit"
       THEN /\ edits < MaxEdits
            /\ EnterEdit(choice[2])
       ELSE UNCHANGED vars

\* console.py:351-392: one character read at the top of the Browse loop
BrowseKey(ch) ==
    /\ pc = "browse"
    /\ IF ch = ESC
       THEN /\ char' = <<ESC>>
            /\ pc' = "browse_esc1"
            /\ ResetTrip
            /\ UNCHANGED <<flowVars, proposed_commits, current_index, selected_index, shown_index,
                           editVars, action, approval, edits, committed>>
       ELSE IF IsEnter(ch)
       THEN /\ edits < MaxEdits
            /\ EnterEdit(selected_index)
       ELSE IF ch = TAB
       THEN /\ pc' = "browse_tab"
            /\ ResetTrip
            /\ UNCHANGED <<flowVars, proposed_commits, current_index, selected_index, shown_index,
                           char, editVars, action, approval, edits, committed>>
       ELSE IF IsCancelKey(ch)
       THEN Cancel
       ELSE IF ch = ETX
       THEN Cancel
       ELSE /\ ResetHistory("ignored")
            /\ UNCHANGED <<pc, flowVars, proposed_commits, current_index,
                           selected_index, shown_index, char, editVars, action, approval, edits,
                           committed>>

\* console.py:354  char += self._get_char()
BrowseEsc1(ch) ==
    /\ pc = "browse_esc1"
    /\ char' = Append(char, ch)
    /\ pc' = "browse_esc2"
    /\ UNCHANGED <<flowVars, proposed_commits, current_index, selected_index, shown_index,
                   editVars, action, approval, edits, histVars>>

\* console.py:355-374  char += self._get_char(), then the arrow keys.  late: more
\* than 0.02 s have passed since last_update_time (346, 364, 373), so that the
\* table is drawn again when the selection has moved.
BrowseEsc2(ch, late) ==
    /\ pc = "browse_esc2"
    /\ selected_index' = MovedIndex(Append(char, ch), selected_index,
                                    Len(proposed_commits))
    /\ shown_index' =
         ShownAfterMove(shown_index, selected_index,
                        MovedIndex(Append(char, ch), selected_index,
                                   Len(proposed_commits)), late)
    /\ char' = <<>>
    /\ pc' = "browse"
    /\ UNCHANGED <<flowVars, proposed_commits, current_index, editVars,
                   action, approval, edits, histVars>>

\* console.py:380-386: the character read after Tab
BrowseTab(ch) ==
    /\ pc = "browse_tab"
    /\ IF TabConfirmed(ch)
       THEN Approve
       ELSE /\ pc' = "browse"
            /\ shown_index' = selected_index
            /\ last_browse' = "tab_dropped"
            /\ UNCHANGED <<flowVars, proposed_commits, current_index, selected_index,
                           char, editVars, action, approval, edits, pre_edit_index,
                           pre_edit_commits, typed, backspaces, simple, last_exit,
                           last_seq, last_buffer, committed>>

\* console.py:351 with 306-310: the read in cbreak mode raised an OSError and the
\* character is taken from a line
BrowseKeyLine(line) ==
    /\ LineRead
    /\ BrowseKey(FallbackChar(line))

\* console.py:394-395  except KeyboardInterrupt: return "cancel", -1
BrowseInterrupt ==
    /\ pc \in BrowsePcs
    /\ Cancel

\* ------------------------------------------------------------- Edit
\* console.py:240-262: one character read at the top of the Edit loop
EditKey(ch) ==
    /\ pc = "edit"
    /\ IF IsEnter(ch)
       THEN /\ ReturnFromEdit(ConfirmEdit(editing_message, current_message), "enter")
            /\ committed' =
                 IF editing_message # proposed_commits[edit_index + 1].message
                 THEN SetMessage(committed, edit_index, editing_message)
                 ELSE committed
            /\ UNCHANGED last_seq
       ELSE IF ch = ESC
       THEN /\ char' = <<ESC>>
            /\ pc' = "edit_esc"
            /\ NotSimple
            /\ UNCHANGED <<flowVars, proposed_commits, current_index, selected_index, shown_index,
                           editVars, action, approval, edits, pre_edit_index,
                           pre_edit_commits, last_exit, last_browse, last_seq, last_buffer,
                           committed>>
       ELSE IF ch = DEL \/ ch = BS
       THEN /\ IF CanDelete(cursor_pos)
               THEN /\ editing_message' = DeleteBefore(editing_message, cursor_pos)
                    /\ cursor_pos' = cursor_pos - 1
               ELSE UNCHANGED <<editing_message, cursor_pos>>
            /\ IF simple /\ backspaces < Len(typed)
               THEN /\ backspaces' = backspaces + 1
                    /\ UNCHANGED <<typed, simple>>
               ELSE NotSimple
            /\ UNCHANGED <<pc, flowVars, proposed_commits, current_index,
                           selected_index, shown_index, char, edit_index, current_message, action,
                           approval, edits, pre_edit_index, pre_edit_commits, last_exit,
                           last_browse, last_seq,
                           last_buffer, committed>>
       ELSE IF ch = ETX
       THEN /\ ReturnFromEdit(None, "ctrlc")
            /\ UNCHANGED <<committed, last_seq>>
       ELSE IF IsPrintable(ch)
       THEN /\ Len(editing_message) < MaxLen
            /\ editing_message' = InsertAt(editing_message, cursor_pos, ch)
            /\ cursor_pos' = cursor_pos + 1
            /\ IF simple /\ backspaces = 0
               THEN /\ typed' = Append(typed, ch)
                    /\ UNCHANGED <<backspaces, simple>>
               ELSE NotSimple
            /\ UNCHANGED <<pc, flowVars, proposed_commits, current_index,
                           selected_index, shown_index, char, edit_index, current_message, action,
                           approval, edits, pre_edit_index, pre_edit_commits, last_exit,
                           last_browse, last_seq,
                           last_buffer, committed>>
       ELSE /\ NotSimple
            /\ UNCHANGED <<pc, flowVars, proposed_commits, current_index,
                           selected_index, shown_index, char, editVars, action, approval, edits,
                           pre_edit_index, pre_edit_commits, last_exit, last_browse,
                           last_seq, last_buffer,
                           committed>>

\* console.py:246-250  char += self._get_char(); a two-character sequence ends the edit
EditEsc(ch) ==
    /\ pc = "edit_esc"
    /\ IF Len(Append(char, ch)) = 2
       THEN /\ ReturnFromEdit(AbandonEdit(editing_message), "escape")
            /\ last_seq' = Append(char, ch)
            /\ UNCHANGED committed
       ELSE /\ pc' = "edit"
            /\ char' = <<>>
            /\ UNCHANGED <<flowVars, proposed_commits, current_index, selected_index, shown_index,
                           editVars, action, approval, edits, histVars>>

\* console.py:240 with 306-310: the character is taken from a line
EditKeyLine(line) ==
    /\ LineRead
    /\ EditKey(FallbackChar(line))

\* console.py:240 with 299: termios.error is raised in _get_char and caught neither
\* there (306) nor in the Edit loop (264)
EditReadRaises ==
    /\ pc \in EditPcs
    /\ ReadRaises
    /\ Raise("termios.error")
    /\ UNCHANGED probes

\* A KeyboardInterrupt raised outside the try blocks of the console: while the
\* table is drawn before the Browse loop (console.py:338-344) or at the top of
\* the Edit loop (237), or while the fallback menu is shown or asks (416-436).
DrawInterrupt ==
    /\ pc \in {"approval", "edit", "fallback"}
    /\ probes' = IF pc = "approval" THEN probes + 1 ELSE probes
    /\ Raise("KeyboardInterrupt")

\* console.py:264-265  except KeyboardInterrupt: return None
EditInterrupt ==
    /\ pc \in EditPcs
    /\ ~ReadRaises
    /\ ReturnFromEdit(None, "interrupt")
    /\ UNCHANGED <<committed, last_seq>>

\* ------------------------------------------------------------- specification
Next ==
    \/ Start
    \/ StartFallback
    \/ ProbeRaises
    \/ \E line \in MenuLines : SimplifiedApproval(line)
    \/ \E line \in Lines : BrowseKeyLine(line)
    \/ \E line \in Lines : EditKeyLine(line)
    \/ EditReadRaises
    \/ DrawInterrupt
    \/ ReturnWithoutCommits
    \/ \E outcome \in {"created", "blocked", "failed"} : CreateCommit(outcome)
    \/ CommitsDone
    \/ \E ch \in Chars : BrowseKey(ch)
    \/ \E ch \in SecondChars : BrowseEsc1(ch)
    \/ \E ch \in Chars, late \in BOOLEAN : BrowseEsc2(ch, late)
    \/ \E ch \in Chars : BrowseTab(ch)
    \/ BrowseInterrupt
    \/ \E ch \in EditKeys : RawRead /\ EditKey(ch)
    \/ \E ch \in SecondChars : RawRead /\ EditEsc(ch)
    \/ EditInterrupt

Spec == Init /\ [][Next]_vars

TypeOK ==
    /\ pc \in PcValues
    /\ action \in {"none", "approve", "cancel"}
    /\ selected_index \in -1..MaxN
    /\ cursor_pos \in 0..MaxLen
    /\ edits \in 0..MaxEdits

\* ------------------------------------------------------------- _get_char
\* One call of SmartCommitConsole._get_char on a POSIX system, one step per
\* statement, for a terminal left in any mode by the shell.
sessionVars == <<pc, input_commits, proposed_commits, current_index, selected_index,
                 shown_index, char, editVars, action, approval, edits, histVars,
                 gitVars, probes>>

\* "idle": not called; "saved": after tcgetattr (299); "reading": blocked in
\* sys.stdin.read(1) (302); "finally": at the finally clause (303);
\* "line": in the except clause, blocked in input() (306-310);
\* "returned": the call returned ch_read; "raised": it raised `exception`
GetCharPcs == {"idle", "saved", "reading", "finally", "line", "returned", "raised"}

\* tty.setcbreak(fd): ECHO and ICANON are cleared
SetCbreak(a) == [a EXCEPT !.echo = FALSE, !.icanon = FALSE]

\* mutant of RestoredAttrs: the finally clause leaves the terminal as it is
RestoreSkipped(a, saved) == a

\* console.py:304  termios.tcsetattr(fd, termios.TCSADRAIN, old_settings)
RestoredAttrs(a, saved) == saved

InitGetChar ==
    /\ input_commits = <<>>
    /\ SessionIdle
    /\ stdin_kind \in StdinKinds
    /\ GetCharIdle
    /\ attrs \in TermAttrs
    /\ FilesIdle
    /\ RestIdle
    /\ status_lines = <<>>

\* console.py:297-299  import termios, tty ; fileno() ; old_settings = tcgetattr(fd)
GetCharCall ==
    /\ gc_pc = "idle"
    /\ reads < MaxReads
    /\ reads' = reads + 1
    /\ attrs_before' = Some(attrs)
    /\ ch_read' = <<>>
    /\ pending' = "none"
    /\ IF stdin_kind = "tty"
       THEN /\ old_settings' = Some(attrs)
            /\ gc_pc' = "saved"
            /\ UNCHANGED exception
       ELSE IF stdin_kind = "notty"
       THEN /\ gc_pc' = "raised"
            /\ exception' = "termios.error"
            /\ UNCHANGED old_settings
       ELSE /\ gc_pc' = "line"
            /\ UNCHANGED <<old_settings, exception>>
    /\ UNCHANGED <<sessionVars, restVars, filesVars, stdin_kind, attrs>>

\* console.py:301  tty.setcbreak(fd): it switches the mode, or raises termios.error
\* having switched it or not
EnterCbreak(raises, switched) ==
    /\ gc_pc = "saved"
    /\ attrs' = IF switched THEN SetCbreak(attrs) ELSE attrs
    /\ IF raises
       THEN /\ pending' = "termios.error"
            /\ gc_pc' = "finally"
       ELSE /\ switched
            /\ gc_pc' = "reading"
            /\ UNCHANGED pending
    /\ UNCHANGED <<sessionVars, restVars, filesVars, stdin_kind, exception, old_settings,
                   ch_read, reads,
                   attrs_before>>

\* console.py:302  ch = sys.stdin.read(1)
ReadChar(ch) ==
    /\ gc_pc = "reading"
    /\ ch_read' = <<ch>>
    /\ gc_pc' = "finally"
    /\ UNCHANGED <<sessionVars, restVars, filesVars, stdin_kind, exception, attrs,
                   old_settings, pending,
                   reads, attrs_before>>

\* console.py:302: the read is interrupted (SIGINT) or fails with an OSError
ReadRaised(exc) ==
    /\ gc_pc = "reading"
    /\ pending' = exc
    /\ gc_pc' = "finally"
    /\ UNCHANGED <<sessionVars, restVars, filesVars, stdin_kind, exception, attrs,
                   old_settings, ch_read,
                   reads, attrs_before>>

\* console.py:303-310: the finally clause, then return ch, or the pending
\* exception: an OSError is caught at 306, any other leaves the call
Restore ==
    /\ gc_pc = "finally"
    /\ attrs' = RestoredAttrs(attrs, old_settings[1])
    /\ pending' = "none"
    /\ IF pending = "none"
       THEN /\ gc_pc' = "returned"
            /\ UNCHANGED exception
       ELSE IF pending = "OSError"
       THEN /\ gc_pc' = "line"
            /\ UNCHANGED exception
       ELSE /\ gc_pc' = "raised"
            /\ exception' = pending
    /\ UNCHANGED <<sessionVars, restVars, filesVars, stdin_kind, old_settings, ch_read, reads,
                   attrs_before>>

\* console.py:310  return input(...)[0:1] or '\r'
LineInput(line) ==
    /\ gc_pc = "line"
    /\ ch_read' = <<FallbackChar(line)>>
    /\ gc_pc' = "returned"
    /\ UNCHANGED <<sessionVars, restVars, filesVars, stdin_kind, exception, attrs,
                   old_settings, pending,
                   reads, attrs_before>>

\* the caller goes on: console.py:264, 394 catch a KeyboardInterrupt
CallerGoesOn ==
    /\ gc_pc \in {"returned", "raised"}
    /\ gc_pc = "raised" => exception = "KeyboardInterrupt"
    /\ gc_pc' = "idle"
    /\ exception' = "none"
    /\ old_settings' = None
    /\ UNCHANGED <<sessionVars, restVars, filesVars, stdin_kind, attrs, pending, ch_read,
                   reads, attrs_before>>

NextGetChar ==
    \/ GetCharCall
    \/ \E raises, switched \in BOOLEAN : EnterCbreak(raises, switched)
    \/ \E ch \in Chars : ReadChar(ch)
    \/ \E exc \in {"KeyboardInterrupt", "OSError"} : ReadRaised(exc)
    \/ Restore
    \/ \E line \in Lines : LineInput(line)
    \/ CallerGoesOn

SpecGetChar == InitGetChar /\ [][NextGetChar]_vars

\* ------------------------------------------------------------- files to process
\* GitRepository.get_repository_state and the list run_atomic_commits builds from
\* it, for a `git status --porcelain` listing.  A line is <<X, Y, " ", path>>: the
\* staged status, the unstaged status, a blank and the path.
StatusPaths == <<"f.txt", "g.txt", "h.txt">>
\* the status codes XY enumerated
StatusCodes == {<<"M", " ">>, <<" ", "M">>, <<"M", "M">>, <<"A", " ">>, <<"A", "M">>,
                <<"D", " ">>, <<" ", "D">>, <<"R", " ">>, <<"C", " ">>, <<"?", "?">>}

\* the listings: every path on one line at most
StatusListings ==
    {l \in UNION {[1..k -> {c \o <<" ", StatusPaths[i]>> :
                                c \in StatusCodes, i \in 1..Len(StatusPaths)}] :
                   k \in 0..MaxStatusLines} :
        \A i, j \in 1..Len(l) : i # j => l[i][4] # l[j][4]}

\* repository.py:142-143  status_code = line[:2] ; file_path = line[3:]
StatusCode(line) == SubSeq(line, 1, 2)
FilePath(line) == line[4]

\* repository.py:145, 167, 186  status_code.startswith('A'), ('M'), ('D')
IsStagedChange(line) == StatusCode(line)[1] \in {"A", "M", "D"}

\* repository.py:209  self.repo.index.diff(None): the paths whose working tree
\* differs from the index, those with unstaged status M or D
IsUnstagedChange(line) == StatusCode(line)[2] \in {"M", "D"}

\* repository.py:113  self.repo.untracked_files
IsUntracked(line) == StatusCode(line) = <<"?", "?">>

\* repository.py:157-199, 216-221: one FileChange, here its file_path, appended
\* for every line taken
PathsOf(lines) == [i \in 1..Len(lines) |-> FilePath(lines[i])]

\* core.py:621-642  sorted(list(top_level_items)), for paths without a directory
TopLevelUntracked(untracked) ==
    LET In(p) == \E i \in 1..Len(untracked) : untracked[i] = p
    IN  SelectSeq(StatusPaths, In)

\* repository.py:56-58  all_changes = staged_files + unstaged_files ;
\* core.py:162-218: then one entry for every top-level untracked item
AllFiles(staged, unstaged, untracked) ==
    staged \o unstaged \o TopLevelUntracked(untracked)

InitFiles ==
    /\ input_commits = <<>>
    /\ SessionIdle
    /\ stdin_kind = "tty"
    /\ GetCharIdle
    /\ attrs = Cooked
    /\ FilesIdle
    /\ RestIdle
    /\ status_lines \in StatusListings

\* repository.py:88-130  get_repository_state
GetRepositoryState ==
    /\ fl_pc = "status"
    /\ repo_staged' = PathsOf(SelectSeq(status_lines, IsStagedChange))
    /\ repo_unstaged' = PathsOf(SelectSeq(status_lines, IsUnstagedChange))
    /\ repo_untracked' = PathsOf(SelectSeq(status_lines, IsUntracked))
    /\ fl_pc' = "state"
    /\ UNCHANGED <<sessionVars, restVars, getCharVars, stdin_kind, exception, status_lines,
                   files_to_process>>

\* core.py:152-227  run_atomic_commits up to print_file_changes
BuildFilesToProcess ==
    /\ fl_pc = "state"
    /\ files_to_process' = AllFiles(repo_staged, repo_unstaged, repo_untracked)
    /\ fl_pc' = "listed"
    /\ UNCHANGED <<sessionVars, restVars, getCharVars, stdin_kind, exception, status_lines,
                   repo_staged, repo_unstaged, repo_untracked>>

NextFiles ==
    \/ GetRepositoryState
    \/ BuildFilesToProcess

SpecFiles == InitFiles /\ [][NextFiles]_vars

\* ------------------------------------------------------------- drawing the table
\* The cursor glyph of console.py:276 (U+258B), written here as one character.
CursorGlyph == "|"

\* A markup string is the sequence of its characters; the name of a style of
\* console.py:207-218 is written as one character, which is a lowercase word.
StyleNames == {"yellow bold", "yellow", "black on white", "reverse bold cyan",
               "reverse bold", "reverse bold green"}

\* The messages and the edit buffers a table is drawn with.
RenderMessages == {<<"x">>, <<"c", "x">>, <<"[", "x">>, <<"[", "x", "]">>}
RenderBuffers == RenderMessages \cup {<<>>}

\* console.py:207-218  f"[style]{text}[/style]"
Styled(style, text) == <<"[", style, "]">> \o text \o <<"[", "/", style, "]">>

\* What rich takes for the first character of a tag: a lowercase letter, '#', '/'
\* or '@' right after '['.
TagStarts == {"x", "c", "/", "#", "@"} \cup StyleNames

\* The Console of console.py:33-37 is built with markup left on, so every string
\* cell of table.add_row (206-225) is read as markup when the table is printed
\* (287, 411): '[' followed by a tag start and closed by the next ']', with no '['
\* in between, is a tag.
IsTagAt(s) ==
    /\ Len(s) >= 3
    /\ s[1] = "["
    /\ s[2] \in TagStarts
    /\ \E j \in 3..Len(s) : s[j] = "]" /\ \A k \in 3..(j - 1) : s[k] \notin {"[", "]"}

\* the position of the ']' that closes the tag at the start of s
TagEnd(s) ==
    CHOOSE j \in 3..Len(s) : s[j] = "]" /\ \A k \in 3..(j - 1) : s[k] \notin {"[", "]"}

\* The text a markup string is printed as: its tags are taken out.
RECURSIVE PlainText(_)
PlainText(s) ==
    IF s = <<>> THEN <<>>
    ELSE IF IsTagAt(s) THEN PlainText(SubSeq(s, TagEnd(s) + 1, Len(s)))
    ELSE <<s[1]>> \o PlainText(Tail(s))

\* The tags a markup string opens, each as the characters of its name, in order;
\* the text after a tag is printed in its style, if rich knows the name.
RECURSIVE OpenTags(_)
OpenTags(s) ==
    IF s = <<>> THEN <<>>
    ELSE IF IsTagAt(s)
         THEN (IF s[2] = "/" THEN <<>> ELSE <<SubSeq(s, 2, TagEnd(s) - 1)>>)
              \o OpenTags(SubSeq(s, TagEnd(s) + 1, Len(s)))
    ELSE OpenTags(Tail(s))

\* console.py:197-227  show_atomic_commits_preview: the cells of the rows, as the
\* strings handed to table.add_row
show_atomic_commits_preview(commits, selected, editing) ==
    [i \in 1..Len(commits) |->
        IF i - 1 = editing
        THEN [number |-> Styled("yellow bold", StrOf(i)),
              file_path |-> Styled("yellow", <<commits[i].file_path>>),
              message |-> Styled("black on white", commits[i].message)]
        ELSE IF i - 1 = selected
        THEN [number |-> Styled("reverse bold cyan", StrOf(i)),
              file_path |-> Styled("reverse bold", <<commits[i].file_path>>),
              message |-> Styled("reverse bold green", commits[i].message)]
        ELSE [number |-> StrOf(i),
              file_path |-> <<commits[i].file_path>>,
              message |-> commits[i].message]]

\* mutant of CopiedEntry: the entry of the copied list is written to in place
CopiedEntryAliased(ref, fresh) == ref

\* console.py:272  display_commits[editing_index] = display_commits[editing_index].copy()
\* The entries of a list are references to dicts: ref is the dict of the caller's
\* list, fresh a dict no list holds yet.
CopiedEntry(ref, fresh) == fresh

\* console.py:273-276  the message with the cursor glyph at cursor_pos
WithCursor(editing, cur) ==
    SubSeq(editing, 1, cur) \o <<CursorGlyph>> \o SubSeq(editing, cur + 1, Len(editing))

\* A session that is about to draw its table: in Browse with a selection, or in
\* Edit of a row with a buffer and the cursor at its end (no key moves the cursor
\* away from the end).
InitRender ==
    /\ \E n \in 1..MaxN : \E messages \in [1..n -> RenderMessages] :
         input_commits = [i \in 1..n |-> [file_path |-> FilePaths[i],
                                          message |-> messages[i]]]
    /\ proposed_commits = input_commits
    /\ committed = input_commits
    /\ pc \in {"browse", "edit"}
    /\ current_index \in 0..(Len(input_commits) - 1)
    /\ selected_index = (IF pc = "browse" THEN current_index ELSE -1)
    /\ shown_index = -1
    /\ edit_index = (IF pc = "edit" THEN current_index ELSE -1)
    /\ current_message =
         (IF pc = "edit" THEN input_commits[current_index + 1].message ELSE <<>>)
    /\ editing_message \in (IF pc = "edit" THEN RenderBuffers ELSE {<<>>})
    /\ cursor_pos = Len(editing_message)
    /\ char = <<>>
    /\ action = "none"
    /\ approval = None
    /\ edits = (IF pc = "edit" THEN 1 ELSE 0)
    /\ pre_edit_index = edit_index
    /\ pre_edit_commits = (IF pc = "edit" THEN input_commits ELSE <<>>)
    /\ typed = <<>>
    /\ backspaces = 0
    /\ simple = FALSE
    /\ last_exit = "none"
    /\ last_seq = <<>>
    /\ last_browse = "none"
    /\ last_buffer = <<>>
    /\ probes = 1
    /\ exception = "none"
    /\ commit_pos = 0
    /\ staged_files = <<>>
    /\ created_commits = <<>>
    /\ stdin_kind = "tty"
    /\ GetCharIdle
    /\ attrs = Cooked
    /\ FilesIdle
    /\ status_lines = <<>>
    /\ RestIdle

\* what a draw leaves alone, the proposals apart
drawFrame == <<pc, input_commits, current_index, selected_index, shown_index, char,
               editVars, action, approval, edits, histVars, gitVars, probes,
               stdin_kind, exception, getCharVars, filesVars, retryVars, cacheVars>>

\* console.py:397-412  _display_table_with_selection
display_table_with_selection ==
    /\ pc = "browse"
    /\ table = None
    /\ table' = Some(show_atomic_commits_preview(proposed_commits, selected_index, -1))
    /\ UNCHANGED <<proposed_commits, drawFrame>>

\* console.py:267-288  _display_table_with_inline_editing, called at 237 with
\* selected_index = current_index.  The dicts of the caller's list are the
\* references 1..n, and n + 1 is the dict made by the copy of 272.
display_table_with_inline_editing ==
    /\ pc = "edit"
    /\ table = None
    /\ LET n == Len(proposed_commits)
           heap == [r \in 1..(n + 1) |->
                       IF r <= n THEN proposed_commits[r]
                       ELSE proposed_commits[edit_index + 1]]
           display_commits ==
               [i \in 1..n |-> IF edit_index >= 0 /\ i = edit_index + 1
                               THEN CopiedEntry(i, n + 1) ELSE i]
           written ==
               IF edit_index >= 0
               THEN [heap EXCEPT ![display_commits[edit_index + 1]].message =
                                     WithCursor(editing_message, cursor_pos)]
               ELSE heap
       IN  /\ table' = Some(show_atomic_commits_preview(
                               [i \in 1..n |-> written[display_commits[i]]],
                               current_index, edit_index))
           /\ proposed_commits' = [i \in 1..n |-> written[i]]
    /\ UNCHANGED drawFrame

NextRender ==
    \/ display_table_with_selection
    \/ display_table_with_inline_editing

SpecRender == InitRender /\ [][NextRender]_vars

\* ------------------------------------------------------------- call_with_retry
\* The exceptions call_api is taken to raise (subclasses of Exception).
ApiErrors == {"TimeoutError", "ConnectionError"}

\* base.py:85  if attempt < max_retries - 1:
ShouldWait(n, retries) == n < retries - 1

\* base.py:86  wait_time = 2 ** attempt
WaitTime(n) == 2 ^ n

\* base.py:91  raise last_exception ; raising None is a TypeError
Raised(exc) == IF exc = None THEN <<"TypeError", -1>> ELSE exc[1]

InitRetry ==
    /\ input_commits = <<>>
    /\ SessionIdle
    /\ stdin_kind = "tty"
    /\ GetCharIdle
    /\ attrs = Cooked
    /\ FilesIdle
    /\ status_lines = <<>>
    /\ RenderIdle
    /\ CacheIdle
    /\ rt_pc = "try"
    /\ max_retries \in 0..MaxRetries
    /\ attempt = 0
    /\ last_exception = None
    /\ calls = 0
    /\ waits = <<>>
    /\ errors = <<>>
    /\ rt_result = None

retryFrame == <<sessionVars, getCharVars, filesVars, stdin_kind, exception, renderVars,
                cacheVars, max_retries>>

\* base.py:70-78: one turn of the loop whose call_api returns
CallApiReturns ==
    /\ rt_pc = "try"
    /\ attempt < max_retries
    /\ calls' = calls + 1
    /\ rt_result' = <<"returned", attempt>>
    /\ rt_pc' = "done"
    /\ UNCHANGED <<retryFrame, attempt, last_exception, waits, errors>>

\* base.py:70-75, 80-81: one turn of the loop whose call_api raises exc
CallApiRaises(exc) ==
    /\ rt_pc = "try"
    /\ attempt < max_retries
    /\ calls' = calls + 1
    /\ last_exception' = Some(<<exc, attempt>>)
    /\ errors' = Append(errors, <<exc, attempt>>)
    /\ rt_pc' = "except"
    /\ UNCHANGED <<retryFrame, attempt, waits, rt_result>>

\* base.py:82-88: the rest of the handler, then the next value of the range
Backoff ==
    /\ rt_pc = "except"
    /\ waits' = IF ShouldWait(attempt, max_retries)
                THEN Append(waits, WaitTime(attempt)) ELSE waits
    /\ attempt' = attempt + 1
    /\ rt_pc' = "try"
    /\ UNCHANGED <<retryFrame, last_exception, calls, errors, rt_result>>

\* base.py:90-91: the range is exhausted
RaiseLast ==
    /\ rt_pc = "try"
    /\ attempt >= max_retries
    /\ rt_result' = <<"raised", Raised(last_exception)>>
    /\ rt_pc' = "done"
    /\ UNCHANGED <<retryFrame, attempt, last_exception, calls, waits, errors>>

NextRetry ==
    \/ CallApiReturns
    \/ \E exc \in ApiErrors : CallApiRaises(exc)
    \/ Backoff
    \/ RaiseLast

SpecRetry == InitRetry /\ [][NextRetry]_vars

\* ------------------------------------------------------------- ScopeCache
\* The paths asked for, each as its parts, and the patterns invalidated.
CachePaths == {<<"a", ".", "py">>, <<"b", ".", "py">>, <<"c", ".", "md">>}
CachePatterns == {<<"*">>, <<"*", ".", "py">>, <<"a", ".", "py">>, <<"c", "*">>}
\* What _compute_scope returns (scope_cache.py:48-56): a scope or None.
Scopes == {None, Some("core"), Some("docs")}

\* scope_cache.py:76  fnmatch.fnmatch(path, pattern), for patterns of literal parts
\* and '*', which matches any run of parts
RECURSIVE Fnmatch(_, _)
Fnmatch(path, pattern) ==
    IF pattern = <<>> THEN path = <<>>
    ELSE IF pattern[1] = "*"
         THEN \/ Fnmatch(path, Tail(pattern))
              \/ (path # <<>> /\ Fnmatch(Tail(path), pattern))
    ELSE path # <<>> /\ path[1] = pattern[1] /\ Fnmatch(Tail(path), Tail(pattern))

\* the keys of _access_count
CountedPaths(counts) == {counts[i].path : i \in 1..Len(counts)}

\* c without the keys in paths
WithoutKeys(c, paths) == [k \in (DOMAIN c) \ paths |-> c[k]]

\* the items of counts whose key is not in paths, in order
WithoutItems(counts, paths) ==
    LET Kept(item) == item.path \notin paths
    IN  SelectSeq(counts, Kept)

\* mutant of OverFull: the cache is never taken to be over its size
NeverOverFull(size, limit) == FALSE

\* scope_cache.py:43, 60  len(self._cache) > self._max_size
OverFull(size, limit) == size > limit

\* scope_cache.py:62  min(self._access_count.items(), key=lambda x: x[1]): the
\* first of the items with the least count
LeastUsed(counts) ==
    counts[CHOOSE i \in 1..Len(counts) :
              /\ \A j \in 1..Len(counts) : counts[i].count <= counts[j].count
              /\ \A j \in 1..(i - 1) : counts[j].count > counts[i].count].path

\* scope_cache.py:31  self._access_count[file_path] += 1
Accessed(counts, file_path) ==
    [i \in 1..Len(counts) |->
        IF counts[i].path = file_path
        THEN [path |-> file_path, count |-> counts[i].count + 1]
        ELSE counts[i]]

\* scope_cache.py:40  self._access_count[file_path] = 1 : the count of a key the
\* dict holds is overwritten in place, a new key goes last
Counted(counts, file_path) ==
    IF file_path \in CountedPaths(counts)
    THEN [i \in 1..Len(counts) |->
             IF counts[i].path = file_path THEN [path |-> file_path, count |-> 1]
             ELSE counts[i]]
    ELSE Append(counts, [path |-> file_path, count |-> 1])

CountOf(counts, file_path) ==
    counts[CHOOSE i \in 1..Len(counts) : counts[i].path = file_path].count

InitScopeCache ==
    /\ input_commits = <<>>
    /\ SessionIdle
    /\ stdin_kind = "tty"
    /\ GetCharIdle
    /\ attrs = Cooked
    /\ FilesIdle
    /\ status_lines = <<>>
    /\ RenderIdle
    /\ RetryIdle
    /\ cache = <<>>
    /\ access_count = <<>>
    /\ max_size \in 0..MaxCacheSize
    /\ returned = None
    /\ last_call = "none"
    /\ has_evicted = FALSE

cacheFrame == <<sessionVars, getCharVars, filesVars, stdin_kind, exception, renderVars,
                retryVars, max_size>>

\* scope_cache.py:25-46  get_scope; scope is what _compute_scope returns if called
get_scope(file_path, scope) ==
    IF file_path \in DOMAIN cache
    THEN /\ CountOf(access_count, file_path) < MaxAccess
         /\ access_count' = Accessed(access_count, file_path)
         /\ returned' = Some(cache[file_path])
         /\ last_call' = "hit"
         /\ UNCHANGED <<cacheFrame, cache, has_evicted>>
    ELSE LET stored == [k \in (DOMAIN cache) \cup {file_path} |->
                           IF k = file_path THEN scope ELSE cache[k]]
             counted == Counted(access_count, file_path)
             evict == OverFull(Cardinality(DOMAIN stored), max_size)
         IN  /\ cache' = IF evict THEN WithoutKeys(stored, {LeastUsed(counted)})
                         ELSE stored
             /\ access_count' = IF evict
                                THEN WithoutItems(counted, {LeastUsed(counted)})
                                ELSE counted
             /\ returned' = Some(scope)
             /\ last_call' = "miss"
             /\ has_evicted' = (has_evicted \/ evict)
             /\ UNCHANGED cacheFrame

\* scope_cache.py:67-72  invalidate_file
invalidate_file(file_path) ==
    /\ cache' = WithoutKeys(cache, {file_path} \cap DOMAIN cache)
    /\ access_count' = IF file_path \in DOMAIN cache
                       THEN WithoutItems(access_count, {file_path})
                       ELSE access_count
    /\ last_call' = "invalidate_file"
    /\ UNCHANGED <<cacheFrame, returned, has_evicted>>

\* scope_cache.py:74-80  invalidate_pattern
invalidate_pattern(pattern) ==
    LET to_remove == {path \in DOMAIN cache : Fnmatch(path, pattern)}
    IN  /\ cache' = WithoutKeys(cache, to_remove)
        /\ access_count' = WithoutItems(access_count, to_remove)
        /\ last_call' = "invalidate_pattern"
        /\ UNCHANGED <<cacheFrame, returned, has_evicted>>

\* scope_cache.py:82-86  clear_cache
clear_cache ==
    /\ cache' = <<>>
    /\ access_count' = <<>>
    /\ last_call' = "clear_cache"
    /\ UNCHANGED <<cacheFrame, returned, has_evicted>>

NextScopeCache ==
    \/ \E file_path \in CachePaths, scope \in Scopes : get_scope(file_path, scope)
    \/ \E file_path \in CachePaths : invalidate_file(file_path)
    \/ \E pattern \in CachePatterns : invalidate_pattern(pattern)
    \/ clear_cache

SpecScopeCache == InitScopeCache /\ [][NextScopeCache]_vars

\* ------------------------------------------------------------- claims
\* The message of entry index (0-based) of a list.
MessageAt(commits, index) == commits[index + 1].message

\* The edit handler has just returned to the approval loop, left by `how`.
Returned(how) == pc = "approval" /\ last_exit = how

\* The third character of an escape sequence is read in Browse, early or late.
ArrowRead(ch) == \E late \in BOOLEAN : BrowseEsc2(ch, late)

\* The characters that remain of typed after the Backspaces.
KeptTyped == SubSeq(typed, 1, Len(typed) - backspaces)

\* C1: a CtrlC read in Edit mode ends the whole session with Cancel: once Edit was
\* left by CtrlC the workflow is finished with outcome Cancel, no proposals are
\* handed on, and the proposals are as they were when Edit was entered.
C1_CtrlCInEditCancels ==
    last_exit = "ctrlc" =>
        /\ pc = "done"
        /\ action = "cancel"
        /\ approval = None
        /\ proposed_commits = pre_edit_commits

\* C2: Enter in Edit with a buffer different from the stored message makes that
\* message exactly the buffer and returns to Browse; every other message, every
\* file_path, the length and the order of the list are unchanged.
C2_EnterCommitsBuffer ==
    (Returned("enter") /\ last_buffer # MessageAt(pre_edit_commits, current_index)) =>
        proposed_commits = SetMessage(pre_edit_commits, current_index, last_buffer)

\* C3: deleting every character of a non-empty message and pressing Enter commits
\* the empty string: it is the stored message once Edit has returned, and it is
\* what the caller receives on a later ApproveAll.
C3_EmptyEditCommitted ==
    /\ (Returned("enter") /\ last_buffer = <<>>
          /\ MessageAt(pre_edit_commits, current_index) # <<>>) =>
            MessageAt(proposed_commits, current_index) = <<>>
    /\ action = "approve" =>
         \A i \in 1..Len(committed) :
            committed[i].message = <<>> => approval[1][i].message = <<>>

C5_TypedThenBackspaced ==
    /\ (pc = "edit" /\ simple) =>
          /\ editing_message = current_message \o KeptTyped
          /\ cursor_pos = Len(editing_message)
          /\ current_message = MessageAt(pre_edit_commits, edit_index)
    /\ (Returned("enter") /\ simple) =>
          proposed_commits =
             SetMessage(pre_edit_commits, current_index,
                        MessageAt(pre_edit_commits, current_index) \o KeptTyped)

C5_Witness ==
    /\ Returned("enter")
    /\ simple
    /\ Len(typed) = 2
    /\ typed[1] # typed[2]
    /\ backspaces = 1

\* C6: ArrowUp changes selected_index by -1 or, at index 0, by 0; ArrowDown by +1
\* or, at index n-1, by 0; in Browse selected_index stays within [0, n-1].
C6_ArrowsClamp ==
    [][ /\ (char = <<ESC, "[">> /\ ArrowRead("A")) =>
              selected_index' = (IF selected_index = 0 THEN 0 ELSE selected_index - 1)
        /\ (char = <<ESC, "[">> /\ ArrowRead("B")) =>
              selected_index' = (IF selected_index = Len(proposed_commits) - 1
                                 THEN selected_index ELSE selected_index + 1)
        /\ pc' \in BrowsePcs =>
              (0 <= selected_index' /\ selected_index' <= Len(proposed_commits') - 1)
      ]_vars

C6_Witness ==
    /\ pc = "browse"
    /\ edits = 0
    /\ selected_index = Len(proposed_commits) - 1
    /\ selected_index > 0

\* C7: each time the session returns from Edit to Browse, however Edit was left,
\* selected_index is the value it had when Edit was entered.
C7_SelectionRestored ==
    (pc = "browse" /\ last_exit # "none") => selected_index = pre_edit_index

C7_Witness ==
    /\ pc = "browse"
    /\ last_exit \in {"enter", "escape"}
    /\ edits = 2
    /\ pre_edit_index = 1
    /\ selected_index = 1

\* C8: Enter in Edit with the buffer equal to the stored message changes nothing:
\* the list is the one held when Edit was entered, and the session returns to Browse.
C8_UnchangedEnterIsNoOp ==
    (Returned("enter") /\ last_buffer = MessageAt(pre_edit_commits, current_index)) =>
        proposed_commits = pre_edit_commits

C8_Witness ==
    /\ Returned("enter")
    /\ last_buffer = MessageAt(pre_edit_commits, current_index)
    /\ simple
    /\ Len(typed) > 0
    /\ backspaces = Len(typed)

\* C9: ApproveAll hands the caller the input list with exactly the edits committed
\* earlier in the session applied.
C9_ApproveReturnsCommitted ==
    action = "approve" => approval = Some(committed)

\* C10: every CtrlC read while the session is in Browse ends it with Cancel,
\* whatever keys preceded it (arrows, Tab, unrecognized sequences); a 'c' read as a
\* Browse command does the same.
C10_CtrlCInBrowseCancels ==
    [][ (\/ BrowseKey(ETX) \/ BrowseEsc1(ETX) \/ ArrowRead(ETX) \/ BrowseTab(ETX)
         \/ BrowseKey("c"))
        => (pc' = "done" /\ action' = "cancel") ]_vars

\* C11: whenever control leaves a key read (a character is returned, the read has
\* degraded to a line prompt, or an exception or interrupt leaves the call) the
\* terminal attributes are those the terminal had before cbreak mode was entered;
\* the terminal is in the switched mode only inside the call.
C11_AttrsRestored ==
    /\ gc_pc \in {"returned", "raised", "line", "idle"} /\ attrs_before # None =>
          attrs = attrs_before[1]
    /\ old_settings # None => old_settings = attrs_before

C11_Witness ==
    /\ gc_pc = "raised"
    /\ exception = "KeyboardInterrupt"
    /\ attrs = Cooked
    /\ reads = 2

\* The session has ended with outcome Cancel and nothing was raised.
EndsWithCancel == pc' = "done" /\ action' = "cancel" /\ exception' = "none"

\* C12: an interrupt at any point of the review session, in Browse or in Edit,
\* while a key read is blocked or while the table is drawn, ends the session with
\* outcome Cancel and never leaves it as an exception.
C12_InterruptCancels ==
    [][ (BrowseInterrupt \/ EditInterrupt \/ (Probe(stdin_kind) = "raw" /\ DrawInterrupt))
        => EndsWithCancel ]_vars

\* C13: for every reason the raw-mode probe can fail (stdin is not a terminal, the
\* termios module is missing, stdin has no file descriptor) the session goes to the
\* fallback menu, and no exception leaves the probe.
C13_ProbeFailureFallsBack ==
    [][ (stdin_kind # "tty" /\ (StartFallback \/ ProbeRaises))
        => (pc' = "fallback" /\ exception' = "none") ]_vars

C15_FallbackLineEdit ==
    [][ \A line \in Lines :
          (/\ Probe(stdin_kind) = "fallback"
           /\ pc = "edit"
           /\ line # <<>>
           /\ line # current_message
           /\ (EditKeyLine(line) \/ EditReadRaises))
          => /\ pc' = "approval"
             /\ proposed_commits' = SetMessage(proposed_commits, edit_index, line) ]_vars

\* C16: when the probe has failed, no terminal operation of the raw key reader is
\* attempted at any later point, editing an entry chosen in the fallback menu
\* included: no step is the tcgetattr call of _get_char.
C16_NoRawAfterProbeFails ==
    [][ Probe(stdin_kind) = "fallback" => ~EditReadRaises ]_vars

\* C17: when a key read in raw mode fails with an I/O error after the probe has
\* succeeded, the read degrades to a line prompt and whatever line is entered the
\* session ends with Cancel: it neither enters Edit nor approves nor crashes.
C17_DegradedReadCancels ==
    [][ \A line \in Lines :
          (stdin_kind = "tty" /\ (BrowseKeyLine(line) \/ EditKeyLine(line)))
          => EndsWithCancel ]_vars

\* C18: an escape sequence that is neither ESC [ A nor ESC [ B nor a bare Escape,
\* such as ESC [ C, is discarded in Browse and in Edit: mode, selection, edit
\* buffer, cursor and proposals are unchanged, the session does not end, and none
\* of its bytes is taken as a separate key afterwards.
C18_OtherSequencesDiscarded ==
    [][ /\ \A ch \in Chars :
             (ArrowRead(ch)
              /\ Append(char, ch) \notin {<<ESC, "[", "A">>, <<ESC, "[", "B">>})
             => (pc' = "browse" /\ UNCHANGED <<selected_index, proposed_commits, action>>)
        /\ (char = <<ESC>> /\ EditEsc("["))
             => (pc' \in EditPcs
                 /\ UNCHANGED <<editing_message, cursor_pos, proposed_commits, action>>)
        /\ (last_seq = <<ESC, "[">> /\ BrowseKey("C"))
             => (pc' = "browse" /\ action' = "none") ]_vars

\* C19: no file is staged and no commit is created while the session runs, nor at
\* any time after a session that ended with Cancel, even if edits were committed
\* in it: files are staged and commits created only after ApproveAll.
C19_CommitsOnlyAfterApprove ==
    /\ pc \notin {"creating", "end"} => (staged_files = <<>> /\ created_commits = <<>>)
    /\ action # "approve" => (staged_files = <<>> /\ created_commits = <<>>)
    /\ \A i \in 1..Len(created_commits) :
          \E j \in 1..Len(proposed_commits) :
             /\ created_commits[i].file_path = proposed_commits[j].file_path
             /\ created_commits[i].message = proposed_commits[j].message

C19_Witness ==
    /\ pc = "end"
    /\ action = "cancel"
    /\ proposed_commits # input_commits
    /\ edits = 2

\* How many entries of the list are path p.
Occurrences(list, p) == Cardinality({i \in 1..Len(list) : list[i] = p})

\* C20: for any porcelain listing, the files to process contain each changed path
\* exactly once: a path with staged status A, M, D, R or C, with unstaged status M
\* or D, or untracked; a path with status MM is not listed twice.
C20_EachChangedFileOnce ==
    fl_pc = "listed" =>
        \A i \in 1..Len(status_lines) :
            LET line == status_lines[i] IN
            (\/ line[1] \in {"A", "M", "D", "R", "C"}
             \/ line[2] \in {"M", "D"}
             \/ <<line[1], line[2]>> = <<"?", "?">>)
            => Occurrences(files_to_process, line[4]) = 1

\* C21: the raw-mode probe is evaluated at most once per review workflow: its result
\* is reused for every later return to Browse and it is never evaluated again
\* before the workflow ends.
C21_ProbedAtMostOnce ==
    probes <= 1

\* C22: in every Edit state 0 <= cursor_pos <= len(edit_buffer), and a Backspace
\* read with cursor_pos = 0 changes neither the edit buffer nor cursor_pos.
C22_CursorInBuffer ==
    /\ [](pc \in EditPcs => (0 <= cursor_pos /\ cursor_pos <= Len(editing_message)))
    /\ [][ \A ch \in {DEL, BS} :
             (EditKey(ch) /\ cursor_pos = 0)
             => UNCHANGED <<editing_message, cursor_pos, pc>> ]_vars

\* Edit with everything deleted by Backspace: the cursor is at 0, where the next
\* Backspace finds nothing before it.
C22_Witness ==
    /\ pc = "edit"
    /\ current_message # <<>>
    /\ editing_message = <<>>
    /\ cursor_pos = 0

\* The session stays in Browse and nothing of it changes.
BrowseIgnores ==
    /\ pc' = "browse"
    /\ UNCHANGED <<selected_index, proposed_commits, current_index, action, approval,
                   edits, char>>

\* C23 as stated: in Browse every key other than the arrows (which begin with ESC),
\* Enter, Tab, 'c' and CtrlC, uppercase letters included, is ignored: the session
\* stays in Browse, selected_index and the proposals are unchanged, no outcome.
C23_OtherKeysIgnored_AsStated ==
    [][ \A ch \in Chars \ {ESC, CR, LF, TAB, "c", ETX} :
             BrowseKey(ch) => BrowseIgnores ]_vars

\* C23: in Browse every key other than the arrows (which begin with ESC), Enter,
\* Tab, 'c', 'C' and CtrlC is ignored: the session stays in Browse, selected_index
\* and the proposals are unchanged, and there is no outcome.
C23_OtherKeysIgnored ==
    [][ \A ch \in Chars \ {ESC, CR, LF, TAB, "c", "C", ETX} :
             BrowseKey(ch) => BrowseIgnores ]_vars

\* Browse after a key that fell through the whole chain of tests.
C23_Witness ==
    /\ pc = "browse"
    /\ last_browse = "ignored"
    /\ action = "none"

\* C26: whenever the session is blocked waiting for the next key in Browse, the row
\* highlighted in the table drawn last is the row at selected_index.
C26_ScreenShowsSelection ==
    pc = "browse" => shown_index = selected_index

\* C27: in Browse, when Tab is followed by a key other than Enter there is no
\* ApproveAll and the session stays in Browse with selected_index and the proposals
\* unchanged; the key is consumed without its own Browse action ('c' does not
\* cancel), and an Enter read after Tab approves and never enters Edit.
C27_KeyAfterTabDropped ==
    [][ \A ch \in Chars :
          BrowseTab(ch) =>
            IF ch \in {CR, LF}
            THEN pc' = "done" /\ action' = "approve" /\ edits' = edits
            ELSE /\ pc' = "browse"
                 /\ action' = "none"
                 /\ approval' = None
                 /\ UNCHANGED <<selected_index, proposed_commits, current_index,
                                edits, char>> ]_vars

\* Browse after Tab and a key that was not Enter.
C27_Witness ==
    /\ pc = "browse"
    /\ last_browse = "tab_dropped"
    /\ action = "none"

\* C28: the console is run on a list of n >= 1 proposals only; every "edit" the
\* console returns, from the raw flow or from the fallback menu and whatever start
\* index was carried over, has its index in [0, n-1]; so every turn of the approval
\* loop in which the console returns edits that entry, approves or cancels, and
\* none goes round without doing one of them (core.py:493 never fails).
C28_EditIndexInRange ==
    /\ [](/\ Len(proposed_commits) >= 1
          /\ pc \in EditPcs =>
                (/\ 0 <= edit_index /\ edit_index <= Len(proposed_commits) - 1
                 /\ current_index = edit_index))
    /\ [][ /\ (pc \in BrowsePcs \cup {"fallback"} /\ pc' \notin BrowsePcs \cup {"fallback"})
                => \/ pc' = "edit" /\ edits' = edits + 1
                   \/ pc' = "done" /\ action' \in {"approve", "cancel"}
                   \/ pc' = "crashed"
           /\ (pc # "approval" /\ pc' = "approval") => pc \in EditPcs ]_vars

\* The second Edit of a session on a terminal, of the last of two rows.
C28_Witness ==
    /\ pc = "edit"
    /\ stdin_kind = "tty"
    /\ edits = 2
    /\ edit_index = 1
    /\ Len(proposed_commits) = 2

\* The stored proposals hold no cursor glyph.
NoGlyphStored ==
    \A i \in 1..Len(proposed_commits) :
        \A k \in 1..Len(proposed_commits[i].message) :
            proposed_commits[i].message[k] # CursorGlyph

\* C24: drawing the table, in Browse or in Edit, never changes the session: the
\* stored proposals, the selection, the buffer and the cursor are after a draw what
\* they were before it, and the stored message of the row being edited never
\* holds the cursor glyph.
C24_DrawChangesNothing ==
    /\ [][ (table = None /\ table' # None) =>
             UNCHANGED <<proposed_commits, drawFrame>> ]_vars
    /\ [](NoGlyphStored /\ proposed_commits = input_commits)

\* The table was drawn in Edit with a buffer that differs from the stored message.
C24_Witness ==
    /\ table # None
    /\ pc = "edit"
    /\ editing_message # proposed_commits[edit_index + 1].message
    /\ editing_message # <<>>

\* s without its element at position k
RemoveAt(s, k) == SubSeq(s, 1, k - 1) \o SubSeq(s, k + 1, Len(s))

\* C25: the table drawn has one row per proposal, in list order; the row being
\* edited shows the edit buffer with one cursor glyph at cursor_pos (taking the
\* glyph out gives the buffer back) instead of the stored message; when no row is
\* edited the row at selected_index, and only it, is highlighted; every other row
\* shows its stored message unstyled.
C25_TableShowsSession ==
    table # None =>
        /\ Len(table[1]) = Len(proposed_commits)
        /\ \A i \in 1..Len(proposed_commits) :
             /\ PlainText(table[1][i].number) = StrOf(i)
             /\ PlainText(table[1][i].file_path) = <<proposed_commits[i].file_path>>
             /\ IF i - 1 = edit_index
                THEN /\ Len(PlainText(table[1][i].message)) = Len(editing_message) + 1
                     /\ PlainText(table[1][i].message)[cursor_pos + 1] = CursorGlyph
                     /\ RemoveAt(PlainText(table[1][i].message), cursor_pos + 1)
                          = editing_message
                ELSE /\ PlainText(table[1][i].message) = proposed_commits[i].message
                     /\ OpenTags(table[1][i].message) =
                          (IF i - 1 = selected_index
                           THEN <<<<"reverse bold green">>>> ELSE <<>>)

C30_CacheConsistent ==
    /\ [](/\ DOMAIN cache = CountedPaths(access_count)
          /\ Cardinality(DOMAIN cache) = Len(access_count)
          /\ Cardinality(DOMAIN cache) <= max_size)
    /\ [][ \A file_path \in CachePaths : \A scope \in Scopes :
             (file_path \in DOMAIN cache /\ get_scope(file_path, scope))
             => /\ returned' = Some(cache[file_path])
                /\ last_call' = "hit"
                /\ cache' = cache ]_vars

\* A full cache that has evicted an entry answers a get_scope from what it holds.
C30_Witness ==
    /\ last_call = "hit"
    /\ has_evicted
    /\ Cardinality(DOMAIN cache) = max_size
    /\ max_size = 2
    /\ \E file_path \in DOMAIN cache : returned = Some(cache[file_path])

====
